---------------------------- MODULE Spec2Model ----------------------------
(***************************************************************************)
(* A model of duplicate-file-finder.py: main() parsing the minimum size,   *)
(* and find_duplicates() walking the tree, grouping by size, hashing the   *)
(* size groups on a thread pool and resolving the duplicate pairs.         *)
(*                                                                         *)
(* Strings are sequences of one-character strings, so that lower(),        *)
(* upper(), strip(), endswith(), "in" and float() are computed.  A Python  *)
(* dict is a sequence of [key, val] entries in insertion order.  None is   *)
(* the empty tuple.                                                        *)
(***************************************************************************)
EXTENDS Integers, Sequences, FiniteSets, TLC

VARIABLES
    argv,                \* the parsed command line and the process's cwd
    tree,                \* what os.walk, fnmatch, os.stat and open/read yield
    pc,                  \* where main / find_duplicates stands
    min_filesize,        \* parse_size(args.min_filesize)
    walk_i,              \* next entry of the walk
    size_groups,         \* dict: size -> list of file_info
    total_files,
    excluded_files,
    total_size,
    duplicates,          \* list of (duplicate, original)
    duplicate_size,
    total_files_to_hash, \* tqdm total
    pbar_n,              \* tqdm counter
    group_i,             \* position of the loop over size_groups.items()
    futures,             \* the pool's futures of the current size group
    file_hashes,         \* dict: digest -> list of file_info (current group)
    hashed               \* history: [size, buckets] of every group hashed

vars == <<argv, tree, pc, min_filesize, walk_i, size_groups, total_files,
          excluded_files, total_size, duplicates, duplicate_size,
          total_files_to_hash, pbar_n, group_i, futures, file_hashes, hashed>>

-----------------------------------------------------------------------------
(* Bounds of the model *)

NumFiles == 3

(* Small input domains *)
Sizes == {500, 1024}
Digests == {"X", "Y"}
FileNames == <<"a", "b", "c", "d", "e", "f">>

NoneVal == <<>>

-----------------------------------------------------------------------------
(* Strings *)

Range(s) == {s[i] : i \in 1..Len(s)}

\* Code point order of the characters the model uses.
CharOrder ==
    <<" ", ".", "/", "0", "1", "2", "3", "4", "5", "6", "7", "8", "9",
      "B", "D", "G", "K", "M", "S", "T",
      "a", "b", "c", "d", "e", "f", "g", "k", "m", "s", "t">>

CodePoint(c) == CHOOSE i \in 1..Len(CharOrder) : CharOrder[i] = c

LowerChar(c) ==
    CASE c = "B" -> "b" [] c = "D" -> "d" [] c = "G" -> "g" [] c = "K" -> "k"
      [] c = "M" -> "m" [] c = "S" -> "s" [] c = "T" -> "t" [] OTHER -> c

UpperChar(c) ==
    CASE c = "b" -> "B" [] c = "d" -> "D" [] c = "g" -> "G" [] c = "k" -> "K"
      [] c = "m" -> "M" [] c = "s" -> "S" [] c = "t" -> "T" [] OTHER -> c

Lower(s) == [i \in 1..Len(s) |-> LowerChar(s[i])]

Upper(s) == [i \in 1..Len(s) |-> UpperChar(s[i])]

\* sub in s
Contains(s, sub) ==
    \E i \in 0..(Len(s) - Len(sub)) : SubSeq(s, i + 1, i + Len(sub)) = sub

EndsWith(s, suf) ==
    /\ Len(suf) <= Len(s)
    /\ SubSeq(s, Len(s) - Len(suf) + 1, Len(s)) = suf

StartsWith(s, pre) ==
    /\ Len(pre) <= Len(s)
    /\ SubSeq(s, 1, Len(pre)) = pre

RECURSIVE LStrip(_)
LStrip(s) == IF s # <<>> /\ Head(s) = " " THEN LStrip(Tail(s)) ELSE s

RECURSIVE RStrip(_)
RStrip(s) ==
    IF s # <<>> /\ s[Len(s)] = " " THEN RStrip(SubSeq(s, 1, Len(s) - 1)) ELSE s

Strip(s) == RStrip(LStrip(s))

\* Python's comparison of two strings: -1, 0, 1.
RECURSIVE StrCmp(_, _)
StrCmp(a, b) ==
    IF a = <<>> /\ b = <<>> THEN 0
    ELSE IF a = <<>> THEN -1
    ELSE IF b = <<>> THEN 1
    ELSE IF CodePoint(Head(a)) < CodePoint(Head(b)) THEN -1
    ELSE IF CodePoint(Head(a)) > CodePoint(Head(b)) THEN 1
    ELSE StrCmp(Tail(a), Tail(b))

-----------------------------------------------------------------------------
(* parse_size *)

Digits == <<"0", "1", "2", "3", "4", "5", "6", "7", "8", "9">>

IsDigit(c) == \E i \in 1..10 : Digits[i] = c

DigitVal(c) == (CHOOSE i \in 1..10 : Digits[i] = c) - 1

RECURSIVE Pow(_, _)
Pow(b, n) == IF n = 0 THEN 1 ELSE b * Pow(b, n - 1)

RECURSIVE DigitsVal(_)
DigitsVal(s) ==
    IF s = <<>> THEN 0
    ELSE 10 * DigitsVal(SubSeq(s, 1, Len(s) - 1)) + DigitVal(s[Len(s)])

\* The decimal literals float() accepts over the model's characters:
\* digits with at most one point and at least one digit.
IsFloat(s) ==
    /\ \A i \in 1..Len(s) : IsDigit(s[i]) \/ s[i] = "."
    /\ Cardinality({i \in 1..Len(s) : s[i] = "."}) <= 1
    /\ \E i \in 1..Len(s) : IsDigit(s[i])

\* float(s) as <<mantissa, decimal places>>.
FloatOf(s) ==
    LET dots == {i \in 1..Len(s) : s[i] = "."}
        p == IF dots = {} THEN Len(s) + 1 ELSE CHOOSE i \in dots : TRUE
        whole == SubSeq(s, 1, p - 1)
        frac == SubSeq(s, p + 1, Len(s))
    IN  <<DigitsVal(whole \o frac), Len(frac)>>

\* units, in the dict's insertion order
UnitNames == <<<<"B">>, <<"K", "B">>, <<"M", "B">>, <<"G", "B">>, <<"T", "B">>>>

UnitFactor(u) ==
    CASE u = <<"B">> -> 1
      [] u = <<"K", "B">> -> 1024
      [] u = <<"M", "B">> -> 1024 * 1024
      [] u = <<"G", "B">> -> 1024 * 1024 * 1024
      [] u = <<"T", "B">> -> 1024 * 1024 * 1024 * 1024

\* next((u for u in units if size_str.endswith(u)), 'B')
UnitOf(s) ==
    LET hits == {i \in 1..Len(UnitNames) : EndsWith(s, UnitNames[i])}
    IN  IF hits = {} THEN <<"B">>
        ELSE UnitNames[CHOOSE i \in hits : \A j \in hits : i <= j]

parse_size(size_str) ==
    IF size_str = <<>> THEN 0
    ELSE LET s == Upper(Strip(size_str)) IN
         IF s = <<"0">> \/ s = <<"0", "B">> THEN 0
         ELSE LET unit == UnitOf(s)
                  num == IF unit # <<"B">>
                         THEN SubSeq(s, 1, Len(s) - Len(unit)) ELSE s
              IN  IF IsFloat(num)
                  THEN (FloatOf(num)[1] * UnitFactor(unit))
                           \div Pow(10, FloatOf(num)[2])
                  ELSE 0

-----------------------------------------------------------------------------
(* Paths: os.path.join, os.path.abspath *)

join(root, filename) ==
    IF root # <<>> /\ root[Len(root)] = "/" THEN root \o filename
    ELSE root \o <<"/">> \o filename

\* The components of a path between its slashes.
RECURSIVE Split(_)
Split(p) ==
    LET slashes == {i \in 1..Len(p) : p[i] = "/"} IN
    IF slashes = {} THEN <<p>>
    ELSE LET i == CHOOSE k \in slashes : \A j \in slashes : k <= j
         IN  <<SubSeq(p, 1, i - 1)>> \o Split(SubSeq(p, i + 1, Len(p)))

RECURSIVE JoinAbs(_)
JoinAbs(parts) ==
    IF parts = <<>> THEN <<>> ELSE <<"/">> \o Head(parts) \o JoinAbs(Tail(parts))

\* normpath of an absolute path: empty and "." components dropped.
normpath(p) ==
    LET parts == SelectSeq(Split(p), LAMBDA c : c # <<>> /\ c # <<".">>)
    IN  IF parts = <<>> THEN <<"/">> ELSE JoinAbs(parts)

\* abspath of p for a process whose working directory is cwd
AbsIn(cwd, p) ==
    IF StartsWith(p, <<"/">>) THEN normpath(p)
    ELSE normpath(cwd \o <<"/">> \o p)

abspath(p) == AbsIn(argv.cwd, p)

-----------------------------------------------------------------------------
(* The helpers of the script *)

\* get_file_hash: the hex digest, or None on IOError; any other error leaves
\* the function and is raised again by future.result().
get_file_hash(content) ==
    IF content \in Digests THEN [kind |-> "digest", val |-> content]
    ELSE IF content = "IOError" THEN [kind |-> "None", val |-> ""]
    ELSE [kind |-> "raise", val |-> ""]

\* get_file_info: (st_ctime, st_mtime, abspath, st_size), None on OSError
get_file_info(filepath, stat) ==
    IF stat.ok THEN <<stat.ctime, stat.mtime, abspath(filepath), stat.size>>
    ELSE NoneVal

\* keyword in filepath.lower(): the keyword is taken as typed
should_include_file_as_typed(filepath, exclude_keywords) ==
    ~ \E i \in 1..Len(exclude_keywords) :
          Contains(Lower(filepath), exclude_keywords[i])

should_include_file(filepath, exclude_keywords) ==
    ~ \E i \in 1..Len(exclude_keywords) :
          Contains(Lower(filepath), Lower(exclude_keywords[i]))

-----------------------------------------------------------------------------
(* Tuples of file_info and sorted() *)

\* a < b for two file_info tuples (ctime, mtime, path, size)
TupleLess(a, b) ==
    \/ a[1] < b[1]
    \/ a[1] = b[1] /\ a[2] < b[2]
    \/ a[1] = b[1] /\ a[2] = b[2] /\ StrCmp(a[3], b[3]) < 0
    \/ a[1] = b[1] /\ a[2] = b[2] /\ StrCmp(a[3], b[3]) = 0 /\ a[4] < b[4]

\* x put into the sorted list s, after the elements that are not greater
RECURSIVE Insert(_, _)
Insert(x, s) ==
    IF s = <<>> THEN <<x>>
    ELSE IF TupleLess(x, Head(s)) THEN <<x>> \o s
    ELSE <<Head(s)>> \o Insert(x, Tail(s))

\* sorted(group, reverse=True)
RECURSIVE sorted_reverse(_)
sorted_reverse(l) ==
    IF l = <<>> THEN <<>>
    ELSE LET rest == sorted_reverse(SubSeq(l, 1, Len(l) - 1))
             x == l[Len(l)]
             before == SelectSeq(rest, LAMBDA y : ~TupleLess(y, x))
             after == SelectSeq(rest, LAMBDA y : TupleLess(y, x))
         IN  before \o <<x>> \o after

RECURSIVE sorted(_)
sorted(l) ==
    IF l = <<>> THEN <<>>
    ELSE Insert(l[Len(l)], sorted(SubSeq(l, 1, Len(l) - 1)))

-----------------------------------------------------------------------------
(* Dicts: sequences of [key, val] in insertion order *)

DictKeys(d) == {d[i].key : i \in 1..Len(d)}

\* d[k] = [v]: the list is replaced, not appended to
DictAppend_overwrite(d, k, v) ==
    IF k \in DictKeys(d)
    THEN [i \in 1..Len(d) |->
             IF d[i].key = k THEN [key |-> k, val |-> <<v>>] ELSE d[i]]
    ELSE Append(d, [key |-> k, val |-> <<v>>])

\* defaultdict(list): d[k].append(v)
DictAppend(d, k, v) ==
    IF k \in DictKeys(d)
    THEN [i \in 1..Len(d) |->
             IF d[i].key = k THEN [key |-> k, val |-> Append(d[i].val, v)]
             ELSE d[i]]
    ELSE Append(d, [key |-> k, val |-> <<v>>])

RECURSIVE SumLens(_)
SumLens(d) ==
    IF d = <<>> THEN 0
    ELSE (IF Len(Head(d).val) > 1 THEN Len(Head(d).val) ELSE 0)
             + SumLens(Tail(d))

-----------------------------------------------------------------------------
(* Resolving a bucket *)

\* The pairs with the first file of the list as it stands as the original.
PairsOf_first(group) ==
    [i \in 1..(Len(group) - 1) |-> <<group[i + 1], group[1]>>]

\* [(filepath, original) for filepath in sorted_group[1:]]
PairsOf(group) ==
    LET sorted_group == sorted(group)
        original == sorted_group[1]
    IN  [i \in 1..(Len(sorted_group) - 1) |-> <<sorted_group[i + 1], original>>]

\* size * len(group): the original counted as well
BytesOf_all(size, group) == size * Len(group)

\* size * (len(group) - 1)
BytesOf(size, group) == size * (Len(group) - 1)

\* the loop over file_hashes.items() of one size group
RECURSIVE ResolvePairs(_)
ResolvePairs(d) ==
    IF d = <<>> THEN <<>>
    ELSE (IF Len(Head(d).val) > 1 THEN PairsOf(Head(d).val) ELSE <<>>)
             \o ResolvePairs(Tail(d))

RECURSIVE ResolveBytes(_, _)
ResolveBytes(size, d) ==
    IF d = <<>> THEN 0
    ELSE (IF Len(Head(d).val) > 1 THEN BytesOf(size, Head(d).val) ELSE 0)
             + ResolveBytes(size, Tail(d))

-----------------------------------------------------------------------------
(* main and find_duplicates *)

\* One file of the walk: lines 117-131.
\* Yields <<size_groups, total_files, total_size, excluded_files>>.
IndexFile(e) ==
    LET filepath == join(e.root, e.filename)
        file_info == get_file_info(filepath, e.stat)
        same == <<size_groups, total_files, total_size, excluded_files>>
        excluded == <<size_groups, total_files, total_size, excluded_files + 1>>
    IN  IF argv.current_folder_only /\ e.root # argv.folder_path THEN same
        ELSE IF ~e.matches THEN same
        ELSE IF should_include_file(filepath, argv.exclude_keywords)
        THEN IF file_info # NoneVal /\ file_info[4] >= min_filesize
             THEN <<DictAppend(size_groups, file_info[4], file_info),
                    total_files + 1, total_size + file_info[4], excluded_files>>
             ELSE excluded
        ELSE excluded

\* The loop body with the buckets keyed by something that does not tell two
\* digests apart.
OnCompleted_one_key(f) ==
    <<IF f.result.kind = "digest"
      THEN DictAppend(file_hashes, f.result.kind, f.file_info)
      ELSE file_hashes,
      pbar_n + 1,
      "">>

\* The loop body without the test "if file_hash": None is a key as well.
OnCompleted_unchecked(f) ==
    <<IF f.result.kind # "raise"
      THEN DictAppend(file_hashes, f.result.val, f.file_info)
      ELSE file_hashes,
      pbar_n + 1,
      "">>

\* The loop body with pbar.update(1) in the try block, after the append.
OnCompleted_update_in_try(f) ==
    <<IF f.result.kind = "digest"
      THEN DictAppend(file_hashes, f.result.val, f.file_info)
      ELSE file_hashes,
      IF f.result.kind = "raise" THEN pbar_n ELSE pbar_n + 1,
      "">>

\* The body of the as_completed loop for one future: lines 147-155.
\* Yields <<file_hashes, pbar_n, the exception that leaves the loop>>: the
\* except clause takes every exception of future.result().
OnCompleted(f) ==
    <<IF f.result.kind = "digest"
      THEN DictAppend(file_hashes, f.result.val, f.file_info)
      ELSE file_hashes,
      pbar_n + 1,
      "">>

\* The content of the file a path names, as the hash task reads it.
ContentAt(path) ==
    tree[CHOOSE k \in 1..Len(tree) : tree[k].file = path].content

\* main: parse_size(args.min_filesize), then the call of find_duplicates
Main ==
    /\ pc = "main"
    /\ min_filesize' = parse_size(argv.min_filesize)
    /\ pc' = "walk"
    /\ UNCHANGED <<argv, tree, walk_i, size_groups, total_files, excluded_files,
                   total_size, duplicates, duplicate_size, total_files_to_hash,
                   pbar_n, group_i, futures, file_hashes, hashed>>

WalkFile ==
    /\ pc = "walk"
    /\ walk_i <= Len(tree)
    /\ LET r == IndexFile(tree[walk_i]) IN
           /\ size_groups' = r[1]
           /\ total_files' = r[2]
           /\ total_size' = r[3]
           /\ excluded_files' = r[4]
    /\ walk_i' = walk_i + 1
    /\ UNCHANGED <<argv, tree, pc, min_filesize, duplicates, duplicate_size,
                   total_files_to_hash, pbar_n, group_i, futures, file_hashes,
                   hashed>>

\* The walk is over: lines 133-140 and 166.
WalkDone ==
    /\ pc = "walk"
    /\ walk_i > Len(tree)
    /\ IF argv.check_contents
       THEN /\ total_files_to_hash' = SumLens(size_groups)
            /\ pc' = "hash"
       ELSE /\ total_files_to_hash' = total_files_to_hash
            /\ pc' = "size"
    /\ UNCHANGED <<argv, tree, min_filesize, walk_i, size_groups, total_files,
                   excluded_files, total_size, duplicates, duplicate_size,
                   pbar_n, group_i, futures, file_hashes, hashed>>

\* The next size group of the content check: lines 141-145.  A group of two
\* or more gets a pool and one task per file; a smaller one is passed over.
SubmitGroup ==
    /\ pc = "hash"
    /\ group_i <= Len(size_groups)
    /\ LET group == size_groups[group_i].val IN
       IF Len(group) > 1
       THEN /\ file_hashes' = <<>>
            /\ futures' = [i \in 1..Len(group) |->
                              [file_info |-> group[i], state |-> "pending",
                               result |-> [kind |-> "", val |-> ""]]]
            /\ pc' = "as_completed"
            /\ group_i' = group_i
       ELSE /\ group_i' = group_i + 1
            /\ UNCHANGED <<file_hashes, futures, pc>>
    /\ UNCHANGED <<argv, tree, min_filesize, walk_i, size_groups, total_files,
                   excluded_files, total_size, duplicates, duplicate_size,
                   total_files_to_hash, pbar_n, hashed>>

\* A worker thread ends get_file_hash for one file.
HashTaskFinish(i) ==
    /\ pc = "as_completed"
    /\ futures[i].state = "pending"
    /\ futures' = [futures EXCEPT
                      ![i].state = "done",
                      ![i].result = get_file_hash(ContentAt(futures[i].file_info[3]))]
    /\ UNCHANGED <<argv, tree, pc, min_filesize, walk_i, size_groups,
                   total_files, excluded_files, total_size, duplicates,
                   duplicate_size, total_files_to_hash, pbar_n, group_i,
                   file_hashes, hashed>>

\* as_completed yields a finished future and the loop body runs for it.  An
\* exception that left the body would end find_duplicates and reach main's
\* handler, lines 291-294.
ConsumeCompleted(i) ==
    /\ pc = "as_completed"
    /\ futures[i].state = "done"
    /\ LET r == OnCompleted(futures[i]) IN
           /\ file_hashes' = r[1]
           /\ pbar_n' = r[2]
    /\ futures' = [futures EXCEPT ![i].state = "yielded"]
    /\ pc' = IF OnCompleted(futures[i])[3] = "" THEN pc ELSE "failed"
    /\ UNCHANGED <<argv, tree, min_filesize, walk_i, size_groups,
                   total_files, excluded_files, total_size, duplicates,
                   duplicate_size, total_files_to_hash, group_i, hashed>>

\* The resolution inside the as_completed loop: it runs once a first future
\* was yielded.
AsCompletedExhausted_first ==
    \E i \in 1..Len(futures) : futures[i].state = "yielded"

\* The as_completed loop ends when it has yielded every future.
AsCompletedExhausted ==
    \A i \in 1..Len(futures) : futures[i].state = "yielded"

\* Every future was yielded: the pool is left and the group's digest buckets
\* are resolved, lines 157-164.
ResolveHashGroup ==
    /\ pc = "as_completed"
    /\ AsCompletedExhausted
    /\ duplicates' = duplicates \o ResolvePairs(file_hashes)
    /\ duplicate_size' =
           duplicate_size + ResolveBytes(size_groups[group_i].key, file_hashes)
    /\ hashed' = Append(hashed, [key |-> size_groups[group_i].key,
                                 val |-> file_hashes])
    /\ futures' = <<>>
    /\ group_i' = group_i + 1
    /\ pc' = "hash"
    /\ UNCHANGED <<argv, tree, min_filesize, walk_i, size_groups, total_files,
                   excluded_files, total_size, total_files_to_hash, pbar_n,
                   file_hashes>>

\* One size group of the size-only check: lines 167-174.
ResolveSizeGroup ==
    /\ pc = "size"
    /\ group_i <= Len(size_groups)
    /\ LET size == size_groups[group_i].key
           group == size_groups[group_i].val
       IN  IF Len(group) > 1
           THEN /\ duplicates' = duplicates \o PairsOf(group)
                /\ duplicate_size' = duplicate_size + BytesOf(size, group)
           ELSE UNCHANGED <<duplicates, duplicate_size>>
    /\ group_i' = group_i + 1
    /\ UNCHANGED <<argv, tree, pc, min_filesize, walk_i, size_groups,
                   total_files, excluded_files, total_size,
                   total_files_to_hash, pbar_n, futures, file_hashes, hashed>>

\* line 176
Return ==
    /\ pc \in {"hash", "size"}
    /\ group_i > Len(size_groups)
    /\ pc' = "done"
    /\ UNCHANGED <<argv, tree, min_filesize, walk_i, size_groups, total_files,
                   excluded_files, total_size, duplicates, duplicate_size,
                   total_files_to_hash, pbar_n, group_i, futures, file_hashes,
                   hashed>>

Next ==
    \/ Main
    \/ WalkFile
    \/ WalkDone
    \/ SubmitGroup
    \/ \E i \in 1..Len(futures) : HashTaskFinish(i)
    \/ \E i \in 1..Len(futures) : ConsumeCompleted(i)
    \/ ResolveHashGroup
    \/ ResolveSizeGroup
    \/ Return

-----------------------------------------------------------------------------
(* Inputs *)

Outcomes == Digests \cup {"IOError", "Exception"}

Stat(c, m, s) == [ok |-> TRUE, ctime |-> c, mtime |-> m, size |-> s]

StatFails == [ok |-> FALSE, ctime |-> 0, mtime |-> 0, size |-> 0]

\* A file of the tree: the directory os.walk yields it under, its name, the
\* file it is (its absolute path), and what fnmatch, os.stat and reading it
\* give.
Entry(cwd, root, name, matches, stat, content) ==
    [root |-> root, filename |-> <<name>>,
     file |-> AbsIn(cwd, join(root, <<name>>)), matches |-> matches,
     stat |-> stat, content |-> content]

Args(folder, cwd, excl, minsize, cfo, cc) ==
    [folder_path |-> folder, cwd |-> cwd, exclude_keywords |-> excl,
     min_filesize |-> minsize, current_folder_only |-> cfo,
     check_contents |-> cc]

\* The state at the start of main, for a command line and a tree.
InitWith(A, T) ==
    /\ argv \in A
    /\ tree \in T
    /\ pc = "main"
    /\ min_filesize = 0
    /\ walk_i = 1
    /\ size_groups = <<>>
    /\ total_files = 0
    /\ excluded_files = 0
    /\ total_size = 0
    /\ duplicates = <<>>
    /\ duplicate_size = 0
    /\ total_files_to_hash = 0
    /\ pbar_n = 0
    /\ group_i = 1
    /\ futures = <<>>
    /\ file_hashes = <<>>
    /\ hashed = <<>>

Dot == <<".">>

Cwd == <<"/", "B", "d">>

\* A directory tree in walk order: the first k files lie in the scanned folder,
\* the others in its subdirectory s (os.walk is top-down).  File i is named
\* FileNames[i]; m, st and c give its fnmatch result, os.stat and content.
TreeOf(folder, n, k, m, st, c) ==
    [i \in 1..n |->
        Entry(Cwd, IF i <= k THEN folder ELSE join(folder, <<"s">>),
              FileNames[i], m[i], st[i], c[i])]

AllMatch(n) == [i \in 1..n |-> TRUE]

\* The default command line, with and without --check-contents.
DefaultArgs ==
    {Args(Dot, Cwd, <<>>, <<"0", "B">>, FALSE, cc) : cc \in BOOLEAN}

\* The creation times of n files: the later a file comes in the walk the
\* older it is (sorted() has to reverse every bucket), or all are equal (the
\* path decides).
CreationTimes(n) == {[i \in 1..n |-> n + 1 - i], [i \in 1..n |-> 1]}

\* Spec: a flat directory of NumFiles files under the default command line.
\* Each file's size and content vary (a digest, an IOError, another error).
Init ==
    InitWith(DefaultArgs,
             {TreeOf(Dot, NumFiles, NumFiles, AllMatch(NumFiles),
                     [i \in 1..NumFiles |-> Stat(ct[i], 1, sz[i])], c) :
                 ct \in CreationTimes(NumFiles),
                 sz \in [1..NumFiles -> Sizes],
                 c \in [1..NumFiles -> Outcomes]})

Spec == Init /\ [][Next]_vars

\* SpecStages: one file more, every file readable, so that two size groups of
\* two files each are hashed one after the other.
StageFiles == NumFiles + 1

InitStages ==
    InitWith(DefaultArgs,
             {TreeOf(Dot, StageFiles, StageFiles, AllMatch(StageFiles),
                     [i \in 1..StageFiles |-> Stat(ct[i], 1, sz[i])], c) :
                 ct \in CreationTimes(StageFiles),
                 sz \in [1..StageFiles -> Sizes],
                 c \in [1..StageFiles -> Digests]})

SpecStages == InitStages /\ [][Next]_vars

\* SpecOrder: files of one size whose creation and modification times vary
\* freely, ties included.
Times == {1, 2}

InitOrder ==
    InitWith(DefaultArgs,
             {TreeOf(Dot, NumFiles, NumFiles, AllMatch(NumFiles),
                     [i \in 1..NumFiles |-> Stat(ct[i], mt[i], 1024)], c) :
                 ct \in [1..NumFiles -> Times],
                 mt \in [1..NumFiles -> Times],
                 c \in [1..NumFiles -> Digests]})

SpecOrder == InitOrder /\ [][Next]_vars

\* SpecSize: the --min-filesize strings, over files of three sizes and files
\* that os.stat fails on.
MinSizeArgs ==
    {<<"0", "B">>, <<"1", "K", "B">>, <<" ", "1", "k", "b">>,
     <<"1", "0", "2", "4">>, <<"6", "0", "0">>, <<"1", ".", "5">>, <<>>}

InitSize ==
    InitWith({Args(Dot, Cwd, <<>>, a, FALSE, cc) :
                 a \in MinSizeArgs, cc \in BOOLEAN},
             {TreeOf(Dot, NumFiles, NumFiles, AllMatch(NumFiles), st,
                     [i \in 1..NumFiles |-> "X"]) :
                 st \in [1..NumFiles ->
                            {StatFails, Stat(1, 1, 500), Stat(1, 1, 1024)}]})

SpecSize == InitSize /\ [][Next]_vars

\* SpecExclude: the --exclude keywords and --current-folder-only, over a
\* folder given as "." or by its absolute path, with a subdirectory.
KeywordLists == {<<>>, <<<<"B">>>>, <<<<"S">>>>, <<<<"c">>, <<"D">>>>}

InitExclude ==
    /\ InitWith({Args(f, Cwd, kw, <<"0", "B">>, cfo, cc) :
                 f \in {Dot, Cwd}, kw \in KeywordLists,
                 cfo \in BOOLEAN, cc \in BOOLEAN},
             UNION {{TreeOf(f, NumFiles, k, m,
                            [i \in 1..NumFiles |-> Stat(1, 1, 1024)],
                            [i \in 1..NumFiles |-> "X"]) :
                        k \in 0..NumFiles, m \in [1..NumFiles -> BOOLEAN]} :
                    f \in {Dot, Cwd}})
    /\ \A i \in 1..Len(tree) : StartsWith(tree[i].root, argv.folder_path)

SpecExclude == InitExclude /\ [][Next]_vars

-----------------------------------------------------------------------------
(* The vocabulary of the properties *)

RecordsIn(d) == UNION {Range(d[i].val) : i \in 1..Len(d)}

\* The records the walk has put into a size bucket.
Accepted == RecordsIn(size_groups)

Pairs == Range(duplicates)

\* What hashing the file of a record yields: a digest or an error.
Digest(r) == ContentAt(r[3])

Hashable(r) == Digest(r) \in Digests

SizeBucket(r) == {m \in Accepted : m[4] = r[4]}

DigestBucket(r) ==
    {m \in SizeBucket(r) : Hashable(m) /\ Digest(m) = Digest(r)}

ResolvedBucket(r) ==
    IF argv.check_contents THEN DigestBucket(r) ELSE SizeBucket(r)

IsMin(o, B) == o \in B /\ \A m \in B \ {o} : TupleLess(o, m)

\* The buckets that are resolved: two or more members.
ResolvedBuckets ==
    {B \in {ResolvedBucket(r) :
               r \in {a \in Accepted : argv.check_contents => Hashable(a)}} :
        Cardinality(B) >= 2}

BucketSizeBytes(B) == (CHOOSE r \in B : TRUE)[4]

RECURSIVE SumBytes(_)
SumBytes(Bs) ==
    IF Bs = {} THEN 0
    ELSE LET B == CHOOSE b \in Bs : TRUE
         IN  BucketSizeBytes(B) * (Cardinality(B) - 1) + SumBytes(Bs \ {B})

RECURSIVE SumMembers(_)
SumMembers(Bs) ==
    IF Bs = {} THEN 0
    ELSE LET B == CHOOSE b \in Bs : TRUE
         IN  (Cardinality(B) - 1) + SumMembers(Bs \ {B})

\* Entry i of the tree, as the walk meets it.
WalkedPath(i) == join(tree[i].root, tree[i].filename)

\* The record of entry i: its times, the absolute path of the file, its size.
InfoOf(i) ==
    <<tree[i].stat.ctime, tree[i].stat.mtime, tree[i].file, tree[i].stat.size>>

Visited(i) ==
    ~(argv.current_folder_only /\ tree[i].root # argv.folder_path)

KeywordIn(path) ==
    \E k \in 1..Len(argv.exclude_keywords) :
        Contains(Lower(path), Lower(argv.exclude_keywords[k]))

\* The positions <<bucket, index>> of a record in a dict of lists.
Positions(d, r) ==
    UNION {{<<i, k>> : k \in {j \in 1..Len(d[i].val) : d[i].val[j] = r}} :
              i \in 1..Len(d)}

\* The positions of a record in the digest buckets of the groups hashed.
HashPositions(r) ==
    UNION {{<<g, p>> : p \in Positions(hashed[g].val, r)} :
              g \in 1..Len(hashed)}

\* The files the walk has met so far and had to put into a size bucket.
Indexed ==
    {InfoOf(i) : i \in {j \in 1..(walk_i - 1) :
        /\ Visited(j)
        /\ tree[j].matches
        /\ ~KeywordIn(WalkedPath(j))
        /\ tree[j].stat.ok
        /\ tree[j].stat.size >= min_filesize}}

-----------------------------------------------------------------------------
(* C1: in both modes the original of every pair is the minimum of its       *)
(* resolved bucket under the order (ctime, mtime, path, size), and the      *)
(* duplicate is strictly greater than the original.                         *)
OriginalIsMinimum ==
    \A p \in Pairs :
        /\ IsMin(p[2], ResolvedBucket(p[2]))
        /\ p[1] \in ResolvedBucket(p[2])
        /\ TupleLess(p[2], p[1])

\* A run has ended with two pairs or more, in one of which the modification
\* time decided, against the order of the walk.
OriginalIsMinimumWitness ==
    /\ pc = "done"
    /\ Len(duplicates) >= 2
    /\ \E p \in Pairs :
          /\ p[1][1] = p[2][1]
          /\ p[2][2] < p[1][2]
          /\ StrCmp(p[1][3], p[2][3]) < 0

-----------------------------------------------------------------------------
(* C2: in content-check mode both records of every pair have the same size  *)
(* and the same digest, and stood in the same file_hashes[digest] list of   *)
(* the same size bucket, whatever the order the hash tasks completed in.    *)
NeverPairsDifferentDigests ==
    argv.check_contents =>
        \A p \in Pairs :
            /\ Hashable(p[1]) /\ Hashable(p[2])
            /\ Digest(p[1]) = Digest(p[2])
            /\ p[1][4] = p[2][4]
            /\ \E g \in 1..Len(hashed) : \E b \in 1..Len(hashed[g].val) :
                  /\ hashed[g].key = p[1][4]
                  /\ hashed[g].val[b].key = Digest(p[1])
                  /\ {p[1], p[2]} \subseteq Range(hashed[g].val[b].val)

\* A pair was resolved in a size bucket that also holds a file of another
\* digest.
NeverPairsDifferentDigestsWitness ==
    /\ argv.check_contents
    /\ pc = "done"
    /\ \E p \in Pairs : \E r \in SizeBucket(p[1]) :
          Hashable(r) /\ Digest(r) # Digest(p[1])

-----------------------------------------------------------------------------
(* C3: in content-check mode the set of pairs returned, and the members of  *)
(* every digest bucket, are a function of the indexed files and their hash  *)
(* outcomes alone: the same for every completion order of the hash tasks.   *)
ExpectedPairs ==
    {<<d, o>> \in Accepted \X Accepted :
        /\ Hashable(o)
        /\ d \in DigestBucket(o) \ {o}
        /\ IsMin(o, DigestBucket(o))}

ExpectedHashBuckets(size) ==
    {DigestBucket(r) : r \in {a \in Accepted : a[4] = size /\ Hashable(a)}}

CompletionOrderIndependent ==
    argv.check_contents =>
        /\ \A g \in 1..Len(hashed) :
              /\ {Range(hashed[g].val[b].val) : b \in 1..Len(hashed[g].val)}
                     = ExpectedHashBuckets(hashed[g].key)
              /\ \A b \in 1..Len(hashed[g].val) :
                    Len(hashed[g].val[b].val)
                        = Cardinality(Range(hashed[g].val[b].val))
        /\ pc = "done" =>
              /\ Pairs = ExpectedPairs
              /\ Len(duplicates) = Cardinality(ExpectedPairs)

\* The run has ended with a pair from a digest bucket whose files completed
\* in another order than they were submitted in.
CompletionOrderIndependentWitness ==
    /\ argv.check_contents
    /\ pc = "done"
    /\ duplicates # <<>>
    /\ \E g \in 1..Len(hashed) : \E b \in 1..Len(hashed[g].val) :
          LET l == hashed[g].val[b].val IN
          /\ Len(l) >= 2
          /\ StrCmp(l[1][3], l[2][3]) > 0

-----------------------------------------------------------------------------
(* C4: in content-check mode a file whose hashing fails (None on IOError,   *)
(* or the future raises) is in no pair; the pairs are those of the files    *)
(* left when the failing files are taken away; and every size group of two  *)
(* or more is still hashed to its end and the run returns.                  *)
Failing == {r \in Accepted : ~Hashable(r)}

\* The pairs of a set of records grouped by size and hash outcome.
PairsAmong(S) ==
    {<<d, o>> \in S \X S :
        LET B == {m \in S : m[4] = o[4] /\ Digest(m) = Digest(o)}
        IN  d \in B \ {o} /\ IsMin(o, B)}

HashFailureIsolated ==
    argv.check_contents =>
        /\ \A p \in Pairs : p[1] \notin Failing /\ p[2] \notin Failing
        /\ pc # "failed"
        /\ pc = "done" =>
              /\ Pairs = PairsAmong(Accepted \ Failing)
              /\ \A r \in Accepted \ Failing :
                    Cardinality(SizeBucket(r)) >= 2 =>
                        Cardinality(HashPositions(r)) = 1

\* The run has returned a pair from a size bucket in which the hashing of
\* another file failed.
HashFailureIsolatedWitness ==
    /\ argv.check_contents
    /\ pc = "done"
    /\ \E p \in Pairs : \E r \in SizeBucket(p[1]) : r \in Failing

-----------------------------------------------------------------------------
(* C5: when find_duplicates returns, duplicate_size is the sum over the     *)
(* resolved buckets of bucketSizeBytes x (memberCount - 1), and the count   *)
(* of duplicates is the sum of (memberCount - 1), the number of pairs.      *)
TotalsMatchBuckets ==
    pc = "done" =>
        /\ duplicate_size = SumBytes(ResolvedBuckets)
        /\ Len(duplicates) = SumMembers(ResolvedBuckets)
        /\ Len(duplicates) = Cardinality(Pairs)

\* Two buckets of different sizes were resolved.
TotalsMatchBucketsWitness ==
    /\ pc = "done"
    /\ \E B1, B2 \in ResolvedBuckets : BucketSizeBytes(B1) # BucketSizeBytes(B2)

-----------------------------------------------------------------------------
(* C6: with --min-filesize 1KB a 500-byte file is excluded: it is in no     *)
(* size bucket and in no pair, it is not counted in total_files or          *)
(* total_size, and it is counted in excluded_files.                         *)
MinSizeGiven(a) == argv.min_filesize = a /\ pc # "main"

\* The entries the walk has met so far.
Met == 1..(walk_i - 1)

RECURSIVE SumSizes(_)
SumSizes(I) ==
    IF I = {} THEN 0
    ELSE LET i == CHOOSE j \in I : TRUE
         IN  tree[i].stat.size + SumSizes(I \ {i})

OneKBExcludesSmallFile ==
    MinSizeGiven(<<"1", "K", "B">>) =>
        /\ \A r \in Accepted : r[4] # 500
        /\ \A p \in Pairs : p[1][4] # 500 /\ p[2][4] # 500
        /\ total_files =
               Cardinality({i \in Met : tree[i].stat.ok
                                           /\ tree[i].stat.size >= 1024})
        /\ total_size =
               SumSizes({i \in Met : tree[i].stat.ok
                                        /\ tree[i].stat.size >= 1024})
        /\ excluded_files =
               Cardinality({i \in Met : ~tree[i].stat.ok
                                           \/ tree[i].stat.size < 1024})

-----------------------------------------------------------------------------
(* C7 as written: every accepted record is in exactly one size bucket, the  *)
(* one of its size, and in content-check mode, once the hashing is over,    *)
(* in exactly one digest bucket under its size bucket.                      *)
InOneSizeBucket(r) ==
    /\ Cardinality(Positions(size_groups, r)) = 1
    /\ \A q \in Positions(size_groups, r) : size_groups[q[1]].key = r[4]

UnderItsBuckets(r) ==
    \A q \in HashPositions(r) :
        /\ hashed[q[1]].key = r[4]
        /\ hashed[q[1]].val[q[2][1]].key = Digest(r)

EveryRecordInOneDigestBucket ==
    /\ Accepted = Indexed
    /\ \A r \in Indexed : InOneSizeBucket(r)
    /\ argv.check_contents /\ pc = "done" =>
          \A r \in Indexed :
              Cardinality(HashPositions(r)) = 1 /\ UnderItsBuckets(r)

(* C7, amended: every accepted record is in exactly one size bucket, the    *)
(* one of its size; in content-check mode, once the hashing is over, a      *)
(* record whose size bucket has two or more members and whose hashing       *)
(* succeeded is in exactly one digest bucket, that of its digest under its  *)
(* size, and every other record is in none.                                 *)
HashedRecordInOneDigestBucket ==
    /\ Accepted = Indexed
    /\ \A r \in Indexed : InOneSizeBucket(r)
    /\ argv.check_contents /\ pc = "done" =>
          \A r \in Indexed :
              /\ Cardinality(HashPositions(r)) =
                     (IF Cardinality(SizeBucket(r)) >= 2 /\ Hashable(r)
                      THEN 1 ELSE 0)
              /\ UnderItsBuckets(r)

\* The hashing is over with a record alone in its size bucket, a record
\* whose hashing failed, and a record in a digest bucket.
HashedRecordInOneDigestBucketWitness ==
    /\ argv.check_contents
    /\ pc = "done"
    /\ \E r \in Indexed : Cardinality(SizeBucket(r)) = 1
    /\ \E r \in Indexed : Cardinality(SizeBucket(r)) >= 2 /\ ~Hashable(r)
    /\ \E r \in Indexed : Cardinality(HashPositions(r)) = 1

-----------------------------------------------------------------------------
(* C8 as written: a file that matches the pattern is excluded (counted in   *)
(* excluded_files, in no size bucket) whenever a keyword occurs, without    *)
(* regard to case, anywhere in its absolute path, also above a relative     *)
(* scan root.                                                               *)
KeywordInAbsolutePathExcludes ==
    /\ \A i \in 1..(walk_i - 1) :
          tree[i].matches /\ KeywordIn(abspath(WalkedPath(i)))
              => InfoOf(i) \notin Accepted
    /\ excluded_files >=
           Cardinality({i \in Met :
               tree[i].matches /\ KeywordIn(abspath(WalkedPath(i)))})

(* C8, amended: a file that the walk visits (with --current-folder-only     *)
(* the files of the scan root alone) and that matches the pattern is        *)
(* excluded (counted in excluded_files, in no size bucket) whenever a       *)
(* keyword occurs, without regard to case, in its path as walked,           *)
(* os.path.join(root, filename), which begins with the scan root as given;  *)
(* a keyword that occurs only above a relative scan root excludes nothing.  *)
Considered(i) == Visited(i) /\ tree[i].matches

Acceptable(i) == tree[i].stat.ok /\ tree[i].stat.size >= min_filesize

KeywordInWalkedPathExcludes ==
    /\ \A i \in 1..(walk_i - 1) :
          Considered(i) /\ KeywordIn(WalkedPath(i)) => InfoOf(i) \notin Accepted
    /\ \A i \in 1..(walk_i - 1) :
          Considered(i) /\ ~KeywordIn(WalkedPath(i)) /\ Acceptable(i)
              => InfoOf(i) \in Accepted
    /\ excluded_files =
           Cardinality({i \in Met :
               Considered(i) /\ (KeywordIn(WalkedPath(i)) \/ ~Acceptable(i))})

\* The walk is over; a file was excluded for a keyword typed in the other
\* case, or a file was kept whose absolute path holds a keyword above the
\* scan root.
KeywordInWalkedPathExcludesWitness ==
    /\ pc = "done"
    /\ \E i \in 1..Len(tree) :
          /\ Considered(i) /\ KeywordIn(WalkedPath(i))
          /\ should_include_file_as_typed(WalkedPath(i), argv.exclude_keywords)
    /\ \E i \in 1..Len(tree) :
          /\ InfoOf(i) \in Accepted
          /\ KeywordIn(abspath(WalkedPath(i)))

-----------------------------------------------------------------------------
(* C9 as written: in content-check mode each stage is drained before the    *)
(* next begins: once a pair is resolved no hash task is outstanding or      *)
(* still to be submitted, every size bucket of two or more being hashed.    *)
StagesFullyDrained ==
    argv.check_contents /\ duplicates # <<>> =>
        /\ futures = <<>>
        /\ \A g \in 1..Len(size_groups) :
              Len(size_groups[g].val) > 1
                  => size_groups[g].key \in DictKeys(hashed)

(* C9, amended: in content-check mode the run is Index, SizeGroup, and      *)
(* then, for one size bucket of two or more after the other, Hash followed  *)
(* by Resolve.  The walk is over before the first hash task is submitted;   *)
(* the digest buckets of a size bucket are resolved only when every hash    *)
(* task of that size bucket has completed and was taken from as_completed;  *)
(* the tasks of a later size bucket are submitted after the pairs of the    *)
(* earlier ones were resolved; and nothing goes backward: the stage, the    *)
(* position of the walk and the position in the size buckets never          *)
(* decrease, and no pair and no hashed bucket is taken back.                *)
StageRank(p) ==
    CASE p = "main" -> 0
      [] p = "walk" -> 1
      [] p \in {"hash", "as_completed", "size"} -> 2
      [] OTHER -> 3

StageInv ==
    /\ pc \in {"main", "walk"} =>
          duplicates = <<>> /\ futures = <<>> /\ hashed = <<>> /\ pbar_n = 0
    /\ pc \notin {"main", "walk"} => walk_i = Len(tree) + 1
    /\ argv.check_contents =>
          /\ \A g \in 1..Len(hashed) : \A r \in Accepted :
                r[4] = hashed[g].key /\ Hashable(r)
                    => r \in RecordsIn(hashed[g].val)
          /\ \A p \in Pairs : p[1][4] \in DictKeys(hashed)
          /\ futures # <<>> =>
                /\ pc = "as_completed"
                /\ size_groups[group_i].key \notin DictKeys(hashed)
                /\ \A i \in 1..Len(futures) :
                      futures[i].file_info[4] = size_groups[group_i].key

StageStep ==
    /\ StageRank(pc') >= StageRank(pc)
    /\ walk_i' >= walk_i
    /\ group_i' >= group_i
    /\ Len(duplicates') >= Len(duplicates)
    /\ SubSeq(duplicates', 1, Len(duplicates)) = duplicates
    /\ Len(hashed') >= Len(hashed)
    /\ SubSeq(hashed', 1, Len(hashed)) = hashed

StagesPerSizeBucket == []StageInv /\ [][StageStep]_vars

\* The tasks of a second size bucket are pending while the pairs of the first
\* are resolved.
StagesPerSizeBucketWitness ==
    /\ argv.check_contents
    /\ pc = "as_completed"
    /\ duplicates # <<>>
    /\ \E i \in 1..Len(futures) : futures[i].state = "pending"

-----------------------------------------------------------------------------
(* C10: in content-check mode the progress total is the number of files in  *)
(* size buckets of two or more; the bar is moved once for every such file   *)
(* taken from as_completed, whether its task gave a digest, gave None or    *)
(* raised; it never passes the total and equals it when the hashing ends.   *)
ProgressOncePerFile ==
    argv.check_contents /\ pc \notin {"main", "walk"} =>
        /\ total_files_to_hash =
               Cardinality({r \in Accepted : Cardinality(SizeBucket(r)) >= 2})
        /\ pbar_n =
               Cardinality({r \in Accepted : r[4] \in DictKeys(hashed)})
                 + Cardinality({i \in 1..Len(futures) :
                                   futures[i].state = "yielded"})
        /\ pbar_n <= total_files_to_hash
        /\ pc = "done" => pbar_n = total_files_to_hash

\* The hashing has ended after a task gave None and another raised.
ProgressOncePerFileWitness ==
    /\ argv.check_contents
    /\ pc = "done"
    /\ pbar_n >= 3
    /\ \E r \in Accepted : Digest(r) = "IOError"
    /\ \E r \in Accepted : Digest(r) = "Exception"

=============================================================================
